---- MODULE Spec2Model ----
(***************************************************************************)
(* ClientManager (src/client_manager/client_manager.py): a repository of   *)
(* client records over two PostgreSQL tables,                              *)
(*     client(client_id SERIAL PK, first_name, last_name, email)           *)
(*     client_phone_number(client_id REFERENCES client ON DELETE CASCADE,  *)
(*                         phone_number VARCHAR(20))                       *)
(* reached through one psycopg connection in its default (non-autocommit)  *)
(* mode.  Text values are sequences of one-character strings, SQL NULL and *)
(* Python None are the empty set, a present value v is {v}.                *)
(***************************************************************************)
EXTENDS Integers, Sequences, FiniteSets, TLC

VARIABLES
    client,               \* table client as the connection sees it: client_id -> row
    client_phone_number,  \* table client_phone_number as the connection sees it: rows in heap order
    client_id_seq,        \* next value of the SERIAL sequence of client.client_id
    committed,            \* the two tables as of the connection's last commit
    txn,                  \* "ok", or "aborted" once a statement of the open transaction failed
    last,                 \* the last call: operation, arguments, and what it returned or raised
    pc                    \* positions of the two concurrent callers (specification SpecConc)

vars == <<client, client_phone_number, client_id_seq, committed, txn, last, pc>>

----------------------------------------------------------------------------
\* Bounds of the model.

\* client_id values the SERIAL sequence may hand out
MaxId == 2
\* rows the table client_phone_number may hold
MaxRows == 3
\* length of a phone-number list passed to add_client / update_client
MaxList == 2

\* VARCHAR(20) of client_phone_number.phone_number
PhoneLen == 20

----------------------------------------------------------------------------
\* Values.

None == {}
Some(v) == {v}
The(o) == CHOOSE v \in o : TRUE

\* 'a'..'b' in both cases: ILIKE folds case
Lower(ch) ==
    CASE ch = "A" -> "a"
      [] ch = "B" -> "b"
      [] OTHER -> ch

RECURSIVE Like(_, _)
\* text LIKE pattern: % matches any run of characters, _ any one character
Like(s, p) ==
    IF p = <<>> THEN s = <<>>
    ELSE IF Head(p) = "%"
         THEN \E k \in 0..Len(s) : Like(SubSeq(s, k + 1, Len(s)), Tail(p))
         ELSE /\ s # <<>>
              /\ (Head(p) = "_" \/ Head(p) = Head(s))
              /\ Like(Tail(s), Tail(p))

\* column ILIKE %s: NULL never matches; otherwise LIKE on the case-folded texts
ILike(col, p) ==
    /\ col # None
    /\ Like([i \in 1..Len(The(col)) |-> Lower(The(col)[i])],
            [i \in 1..Len(p) |-> IF p[i] \in {"%", "_"} THEN p[i] ELSE Lower(p[i])])

\* times the value v occurs in the list
Occurrences(list, v) == Cardinality({i \in 1..Len(list) : list[i] = v})

\* lists over S of length at most n
SeqUpTo(S, n) == UNION {[1..k -> S] : k \in 0..n}

----------------------------------------------------------------------------
\* The connection: the state a statement runs in and leaves behind.

\* executed counts the cur.execute calls made since the connection was handed to a call
Conn == [client |-> client, phone |-> client_phone_number, seq |-> client_id_seq,
         committed |-> committed, err |-> None, executed |-> 0]

\* n statements were sent to the store
Executed(st, n) == [st EXCEPT !.executed = @ + n]

\* conn.commit()
commit(st) == [st EXCEPT !.committed = [client |-> st.client, phone |-> st.phone]]

\* conn.rollback(), and what COMMIT does in an aborted transaction: the tables are
\* again as last committed
rollback(st) ==
    [st EXCEPT !.client = st.committed.client, !.phone = st.committed.phone, !.err = None]

\* a statement that the store rejects aborts the open transaction
Raise(st, e) == [Executed(st, 1) EXCEPT !.err = Some(e)]

\* InsertClient with the email column left out of the INSERT
InsertClient_no_email(st, values) ==
    [st EXCEPT !.client = [id \in DOMAIN st.client \cup {st.seq} |->
                             IF id = st.seq
                             THEN [first_name |-> values.first_name,
                                   last_name  |-> values.last_name,
                                   email      |-> None]
                             ELSE st.client[id]],
               !.seq = st.seq + 1,
               !.executed = @ + 1]

\* INSERT INTO client (first_name, last_name, email) VALUES (...) RETURNING client_id
InsertClient(st, values) ==
    [st EXCEPT !.client = [id \in DOMAIN st.client \cup {st.seq} |->
                             IF id = st.seq
                             THEN [first_name |-> values.first_name,
                                   last_name  |-> values.last_name,
                                   email      |-> values.email]
                             ELSE st.client[id]],
               !.seq = st.seq + 1,
               !.executed = @ + 1]

\* InsertPhoneNumber on a table without the foreign key
InsertPhoneNumber_no_fk(st, client_id, phone_number) ==
    IF Len(phone_number) > PhoneLen THEN Raise(st, "StringDataRightTruncation")
    ELSE [st EXCEPT !.phone = Append(@, [client_id |-> client_id,
                                         phone_number |-> phone_number]),
                    !.executed = @ + 1]

\* INSERT INTO client_phone_number VALUES(client_id, phone_number)
InsertPhoneNumber(st, client_id, phone_number) ==
    IF client_id \notin DOMAIN st.client THEN Raise(st, "ForeignKeyViolation")
    ELSE IF Len(phone_number) > PhoneLen THEN Raise(st, "StringDataRightTruncation")
    ELSE [st EXCEPT !.phone = Append(@, [client_id |-> client_id,
                                         phone_number |-> phone_number]),
                    !.executed = @ + 1]

\* _delete_phone_numbers that removes only rows already committed
_delete_phone_numbers_committed(st, client_id) ==
    [st EXCEPT !.phone = SelectSeq(@, LAMBDA row :
                            row.client_id # client_id
                            \/ Occurrences(st.committed.phone, row) = 0),
               !.executed = @ + 1]

\* DELETE FROM client_phone_number WHERE client_id = %s
_delete_phone_numbers(st, client_id) ==
    [st EXCEPT !.phone = SelectSeq(@, LAMBDA row : row.client_id # client_id),
               !.executed = @ + 1]

RECURSIVE InsertEach(_, _, _)
\* for phone_number in phone_numbers: cur.execute(INSERT ...), up to the first failure
InsertEach(st, client_id, phone_numbers) ==
    IF phone_numbers = <<>> \/ st.err # None THEN st
    ELSE InsertEach(InsertPhoneNumber(st, client_id, Head(phone_numbers)),
                    client_id, Tail(phone_numbers))

\* if phone_numbers: insert each, then commit
_add_phone_numbers(st, client_id, phone_numbers) ==
    IF phone_numbers # None /\ The(phone_numbers) # <<>>
    THEN LET s == InsertEach(st, client_id, The(phone_numbers))
         IN  IF s.err = None THEN commit(s) ELSE s
    ELSE st

\* SELECT phone_number FROM client_phone_number WHERE client_id = %s
_load_phone_numbers(st, client_id) ==
    LET rows == SelectSeq(st.phone, LAMBDA row : row.client_id = client_id)
    IN  [i \in 1..Len(rows) |-> rows[i].phone_number]

\* Client(props): phone_numbers defaults to []
Client(client_id, row) ==
    [id |-> client_id, first_name |-> row.first_name, last_name |-> row.last_name,
     email |-> row.email, phone_numbers |-> <<>>]

\* the Client of the row with this id and its phone numbers, or None
load_client(st, client_id) ==
    IF client_id \in DOMAIN st.client
    THEN Some([Client(client_id, st.client[client_id])
                 EXCEPT !.phone_numbers = _load_phone_numbers(st, client_id)])
    ELSE None

\* the statements load_client executes: the client row, and its numbers when found
LoadCost(st, client_id) == IF client_id \in DOMAIN st.client THEN 2 ELSE 1

\* the connection after a load_client that is reached only when nothing raised
Loaded(st, client_id) ==
    IF st.err = None THEN Executed(st, LoadCost(st, client_id)) ELSE st

\* _set_phone_numbers that adds the new numbers without deleting the old ones
_set_phone_numbers_append(st, client_id, phone_numbers) ==
    Loaded(_add_phone_numbers(st, client_id, phone_numbers), client_id)

\* delete all the client's numbers, add the new ones, and load the client
_set_phone_numbers(st, client_id, phone_numbers) ==
    Loaded(_add_phone_numbers(_delete_phone_numbers(st, client_id), client_id, phone_numbers),
           client_id)

\* a call's outcome: the connection after it, and what it returned or raised
Returns(st, value) == [st |-> st, ret |-> value, exc |-> None]
Raises(st, e) == [st |-> st, ret |-> None, exc |-> Some(e)]
\* return self.load_client(client_id), unless a statement raised before
ReturnLoaded(st, client_id) ==
    IF st.err = None THEN Returns(Loaded(st, client_id), load_client(st, client_id))
    ELSE Raises(st, The(st.err))

\* add_client that commits the client row before adding the phone numbers
add_client_two_commits(st, values) ==
    LET s1 == commit(InsertClient(st, values))
        client_id == st.seq
        s2 == _add_phone_numbers(s1, client_id, values.phone_numbers)
    IN  ReturnLoaded(s2, client_id)

\* add_client(values)
add_client(st, values) ==
    LET s1 == InsertClient(st, values)
        client_id == st.seq
        s2 == _add_phone_numbers(s1, client_id, values.phone_numbers)
    IN  ReturnLoaded(s2, client_id)

\* update_client without the else branch: a missing id is passed over in silence
update_client_no_raise(st, c) ==
    IF c.id \in DOMAIN st.client
    THEN LET s1 == [st EXCEPT !.client[c.id] = [first_name |-> c.first_name,
                                                last_name  |-> c.last_name,
                                                email      |-> c.email],
                              !.executed = @ + 1]
             s2 == _set_phone_numbers(s1, c.id, Some(c.phone_numbers))
         IN  ReturnLoaded(s2, c.id)
    ELSE Returns(Executed(st, 1), None)

\* update_client(client)
update_client(st, c) ==
    IF c.id \in DOMAIN st.client
    THEN LET s1 == [st EXCEPT !.client[c.id] = [first_name |-> c.first_name,
                                                last_name  |-> c.last_name,
                                                email      |-> c.email],
                              !.executed = @ + 1]
             s2 == _set_phone_numbers(s1, c.id, Some(c.phone_numbers))
         IN  ReturnLoaded(s2, c.id)
    ELSE Raises(Executed(st, 1), "ClientNotExistsError")

\* delete_client on a foreign key without ON DELETE CASCADE semantics
delete_client_no_cascade(st, client_id) ==
    Returns([st EXCEPT !.client = [id \in DOMAIN st.client \ {client_id} |-> st.client[id]],
                       !.executed = @ + 1],
            None)

\* delete_client(client_id): the foreign key's ON DELETE CASCADE removes the child rows
delete_client(st, client_id) ==
    Returns([st EXCEPT !.client = [id \in DOMAIN st.client \ {client_id} |-> st.client[id]],
                       !.phone = SelectSeq(@, LAMBDA row : row.client_id # client_id),
                       !.executed = @ + 1],
            None)

\* add_phone_number(client_id, phone_number)
add_phone_number(st, client_id, phone_number) ==
    LET s1 == InsertPhoneNumber(st, client_id, phone_number)
        s2 == IF s1.err = None THEN commit(s1) ELSE s1
    IN  ReturnLoaded(s2, client_id)

\* delete_phone_number(client_id, phone_number)
delete_phone_number(st, client_id, phone_number) ==
    LET s1 == [st EXCEPT !.phone = SelectSeq(@, LAMBDA row :
                            ~(row.client_id = client_id /\ row.phone_number = phone_number)),
                         !.executed = @ + 1]
    IN  ReturnLoaded(s1, client_id)

\* the values of a list
Range(list) == {list[i] : i \in 1..Len(list)}

RECURSIVE Ascending(_)
\* the ids of a set in ascending order
Ascending(ids) ==
    IF ids = {} THEN <<>>
    ELSE LET m == CHOOSE i \in ids : \A j \in ids : i <= j
         IN  <<m>> \o Ascending(ids \ {m})

RECURSIVE AppendPhones(_, _)
\* for item in cur.fetchall(): if client_id in clients: append the number to that client
AppendPhones(clients, items) ==
    IF items = <<>> THEN clients
    ELSE LET item == Head(items)
         IN  AppendPhones(IF item.client_id \in DOMAIN clients
                          THEN [clients EXCEPT ![item.client_id].phone_numbers =
                                                   Append(@, item.phone_number)]
                          ELSE clients,
                          Tail(items))

\* the statements load_clients executes, whatever the number of ids
LoadClientsCost == 2

\* load_clients(client_ids): one query per table, joined in memory
load_clients(st, client_ids) ==
    LET clients == [id \in Range(client_ids) \cap DOMAIN st.client |->
                      Client(id, st.client[id])]
        items == SelectSeq(st.phone, LAMBDA row : row.client_id \in Range(client_ids))
    IN  AppendPhones(clients, items)

\* the recognized search fields; phone_number lives in the joined table cpn
ParentFields == {"first_name", "last_name", "email"}
SearchFields == ParentFields \cup {"phone_number"}

\* the rows the FROM clause yields: client c, joined to client_phone_number cpn
\* when the filter names phone_number
FromRows(st, values) ==
    IF "phone_number" \in DOMAIN values
    THEN [i \in 1..Len(st.phone) |->
            [client_id |-> st.phone[i].client_id,
             c |-> st.client[st.phone[i].client_id],
             cpn |-> st.phone[i]]]
    ELSE LET ids == Ascending(DOMAIN st.client)
         IN  [i \in 1..Len(ids) |-> [client_id |-> ids[i], c |-> st.client[ids[i]]]]

\* the column sql.Identifier(table, field) of a row of the FROM clause
Column(row, field) ==
    CASE field = "phone_number" -> Some(row.cpn.phone_number)
      [] field = "email"        -> row.c.email
      [] field = "first_name"   -> Some(row.c.first_name)
      [] field = "last_name"    -> Some(row.c.last_name)

\* WHERE with the conditions joined by OR
Where_any(row, values) == \E field \in DOMAIN values : ILike(Column(row, field), values[field])

\* WHERE <column> ILIKE %s AND ... over the fields of the filter
Where(row, values) == \A field \in DOMAIN values : ILike(Column(row, field), values[field])

\* search_clients that also answers None when the query finds no client
search_clients_none_if_empty(st, values) ==
    IF DOMAIN values # {}
    THEN LET rows == SelectSeq(FromRows(st, values), LAMBDA row : Where_any(row, values))
             client_ids == [i \in 1..Len(rows) |-> rows[i].client_id]
         IN  IF client_ids = <<>> THEN Returns(Executed(st, 1), None)
             ELSE Returns(Executed(st, 1 + LoadClientsCost), Some(load_clients(st, client_ids)))
    ELSE Returns(st, None)

\* search_clients(values): None when the filter is empty
search_clients(st, values) ==
    IF DOMAIN values # {}
    THEN LET rows == SelectSeq(FromRows(st, values), LAMBDA row : Where(row, values))
             client_ids == [i \in 1..Len(rows) |-> rows[i].client_id]
         IN  Returns(Executed(st, 1 + LoadClientsCost), Some(load_clients(st, client_ids)))
    ELSE Returns(st, None)

----------------------------------------------------------------------------
\* Inputs.

FirstNames == {<<"A", "b">>}
LastNames == {<<"b">>}
Emails == {None, Some(<<"a">>)}
\* a number longer than the column's VARCHAR(20)
TooLong == [i \in 1..(PhoneLen + 1) |-> "1"]
PhoneNumbers == {<<"1", "1">>, <<"2", "1">>}
PhoneInputs == PhoneNumbers \cup {TooLong}
\* existing ids and one the sequence never hands out
Ids == 1..(MaxId + 1)

\* ContactValues: first and last name, optional email, optional phone_numbers
ContactValues ==
    [first_name : FirstNames, last_name : LastNames, email : Emails,
     phone_numbers : {None} \cup {Some(l) : l \in SeqUpTo(PhoneInputs, MaxList)}]

\* Client instances a caller may pass to update_client
Clients ==
    [id : Ids, first_name : FirstNames, last_name : LastNames, email : Emails,
     phone_numbers : SeqUpTo(PhoneNumbers, MaxList)]

----------------------------------------------------------------------------
\* The sequential caller: one call at a time on the connection.

NoCall == [op |-> "none"]

Init ==
    /\ client = <<>>
    /\ client_phone_number = <<>>
    /\ client_id_seq = 1
    /\ committed = [client |-> <<>>, phone |-> <<>>]
    /\ txn = "ok"
    /\ last = NoCall
    /\ pc = "sequential"

\* the connection after a call, and the call's record
Finish(out, call) ==
    /\ Len(out.st.phone) <= MaxRows
    /\ client' = out.st.client
    /\ client_phone_number' = out.st.phone
    /\ client_id_seq' = out.st.seq
    /\ committed' = out.st.committed
    /\ txn' = IF out.st.err = None THEN "ok" ELSE "aborted"
    /\ last' = [call EXCEPT !.ret = out.ret, !.exc = out.exc, !.executed = out.st.executed]
    /\ UNCHANGED pc

Call(op, id, values, number) ==
    [op |-> op, id |-> id, values |-> values, number |-> number, ret |-> None, exc |-> None,
     executed |-> 0]

AddClient ==
    /\ txn = "ok"
    /\ client_id_seq <= MaxId
    /\ \E values \in ContactValues :
          Finish(add_client(Conn, values), Call("add_client", client_id_seq, values, <<>>))

UpdateClient ==
    /\ txn = "ok"
    /\ \E c \in Clients :
          Finish(update_client(Conn, c), Call("update_client", c.id, c, <<>>))

DeleteClient ==
    /\ txn = "ok"
    /\ \E id \in Ids :
          Finish(delete_client(Conn, id), Call("delete_client", id, None, <<>>))

AddPhoneNumber ==
    /\ txn = "ok"
    /\ \E id \in Ids, number \in PhoneNumbers :
          Finish(add_phone_number(Conn, id, number), Call("add_phone_number", id, None, number))

DeletePhoneNumber ==
    /\ txn = "ok"
    /\ \E id \in Ids, number \in PhoneNumbers :
          Finish(delete_phone_number(Conn, id, number),
                 Call("delete_phone_number", id, None, number))

\* the caller rolls the aborted transaction back (the connection context does so
\* when the exception leaves it): the tables are again as last committed
Rollback ==
    /\ txn = "aborted"
    /\ client' = rollback(Conn).client
    /\ client_phone_number' = rollback(Conn).phone
    /\ txn' = "ok"
    /\ last' = [op |-> "rollback"]
    /\ UNCHANGED <<client_id_seq, committed, pc>>

Next ==
    \/ AddClient
    \/ UpdateClient
    \/ DeleteClient
    \/ AddPhoneNumber
    \/ DeletePhoneNumber
    \/ Rollback

Spec == Init /\ [][Next]_vars

----------------------------------------------------------------------------
\* Properties of the sequential caller (specification Spec).

\* the phone numbers stored for a client, as the table holds them
StoredFor(rows, id) == SelectSeq(rows, LAMBDA row : row.client_id = id)
\* the rows of the other clients
StoredForOthers(rows, id) == SelectSeq(rows, LAMBDA row : row.client_id # id)
\* two lists hold the same values the same number of times
SameMultiset(l1, l2) ==
    /\ Len(l1) = Len(l2)
    /\ \A v \in Range(l1) \cup Range(l2) : Occurrences(l1, v) = Occurrences(l2, v)

\* C1: update_client with an id that is not the id of a client row raises
\* ClientNotExistsError and leaves both tables exactly as they were.
C1_UpdateMissingRaisesAndKeepsStore ==
    [][(last'.op = "update_client" /\ last'.id \notin DOMAIN client)
         => /\ last'.exc = Some("ClientNotExistsError")
            /\ client' = client
            /\ client_phone_number' = client_phone_number]_vars

\* C1 witness: an update of a missing id was refused while the store held clients
\* and phone numbers that it could have touched.
C1_Witness ==
    /\ last.op = "update_client"
    /\ last.id \notin DOMAIN client
    /\ last.exc = Some("ClientNotExistsError")
    /\ DOMAIN client # {}
    /\ client_phone_number # <<>>

\* C2: after update_client on an existing client with the list L the rows stored for
\* that client are exactly L as a multiset, and the rows of other clients are unchanged.
C2_UpdateReplacesPhoneNumbers ==
    [][(last'.op = "update_client" /\ last'.id \in DOMAIN client /\ last'.exc = None)
         => LET stored == StoredFor(client_phone_number', last'.id)
            IN  /\ SameMultiset([i \in 1..Len(stored) |-> stored[i].phone_number],
                                last'.values.phone_numbers)
                /\ StoredForOthers(client_phone_number', last'.id)
                      = StoredForOthers(client_phone_number, last'.id)]_vars

\* C2 witness: an update listed one number twice while another client kept a number.
C2_Witness ==
    /\ last.op = "update_client"
    /\ last.exc = None
    /\ Len(last.values.phone_numbers) = 2
    /\ last.values.phone_numbers[1] = last.values.phone_numbers[2]
    /\ StoredForOthers(client_phone_number, last.id) # <<>>

\* C3: every row of client_phone_number references an existing client row; after
\* delete_client(id) no row with that client_id remains and load_client(id) is None.
C3_NoOrphanPhoneNumbers ==
    /\ \A i \in 1..Len(client_phone_number) :
          client_phone_number[i].client_id \in DOMAIN client
    /\ last.op = "delete_client"
          => /\ StoredFor(client_phone_number, last.id) = <<>>
             /\ load_client(Conn, last.id) = None

\* C3 witness: a client whose phone numbers had been committed was deleted.
C3_Witness ==
    /\ last.op = "delete_client"
    /\ last.id \in DOMAIN committed.client
    /\ StoredFor(committed.phone, last.id) # <<>>

\* C4: the entity add_client(f) returns carries f's names and email (None when
\* absent) and f's phone numbers as a multiset (none when absent or empty), and
\* load_client on its id returns an equal entity.
C4_AddLoadRoundTrip ==
    (last.op = "add_client" /\ last.exc = None)
        => /\ last.ret # None
           /\ LET f == last.values
                  e == The(last.ret)
              IN  /\ e.id = last.id
                  /\ e.first_name = f.first_name
                  /\ e.last_name = f.last_name
                  /\ e.email = f.email
                  /\ SameMultiset(e.phone_numbers,
                                  IF f.phone_numbers = None THEN <<>>
                                  ELSE The(f.phone_numbers))
                  /\ load_client(Conn, e.id) = last.ret

\* C4 witness: a client was added with an email and two phone numbers.
C4_Witness ==
    /\ last.op = "add_client"
    /\ last.exc = None
    /\ last.values.email # None
    /\ last.values.phone_numbers # None
    /\ Len(The(last.values.phone_numbers)) = 2

\* C7 as stated: delete_client, add_phone_number and delete_phone_number with an id
\* that is not the id of a client row complete without raising and leave the store
\* unchanged.
C7_MissingIdIsNoOp ==
    [][(/\ last'.op \in {"delete_client", "add_phone_number", "delete_phone_number"}
        /\ last'.id \notin DOMAIN client)
         => /\ last'.exc = None
            /\ client' = client
            /\ client_phone_number' = client_phone_number]_vars

\* C7 amended: delete_client and delete_phone_number with a missing id complete
\* without raising and leave the store unchanged; add_phone_number with a missing id
\* raises the store's foreign-key violation and inserts no row; ClientNotExistsError
\* is raised by update_client only.
C7_MissingIdAmended ==
    [][/\ (/\ last'.op \in {"delete_client", "delete_phone_number"}
           /\ last'.id \notin DOMAIN client)
            => /\ last'.exc = None
               /\ last'.ret = None
               /\ client' = client
               /\ client_phone_number' = client_phone_number
       /\ (last'.op = "add_phone_number" /\ last'.id \notin DOMAIN client)
            => /\ last'.exc = Some("ForeignKeyViolation")
               /\ client' = client
               /\ client_phone_number' = client_phone_number
       /\ (last'.op # "rollback" /\ last'.exc = Some("ClientNotExistsError"))
            => last'.op = "update_client"]_vars

\* C7 witness: add_phone_number on a missing id was rejected by the foreign key
\* while the store held a client and a phone number.
C7_Witness ==
    /\ last.op = "add_phone_number"
    /\ last.id \notin DOMAIN client
    /\ last.exc = Some("ForeignKeyViolation")
    /\ client_phone_number # <<>>

\* C10 as stated: the parent row is committed apart from the phone-number rows, so
\* an add_client that fails while inserting phone numbers leaves its client row
\* committed.
C10_ParentCommittedApart ==
    (last.op = "add_client" /\ last.exc # None) => last.id \in DOMAIN committed.client

\* C10 amended: add_client has one commit point, after the last phone-number insert:
\* when an insert fails nothing of the client is committed (neither its row nor any
\* of its numbers), and when add_client returns with a non-empty list the row and
\* all the listed numbers are committed together.
C10_SingleCommitPoint ==
    /\ (last.op = "add_client" /\ last.exc # None)
          => /\ last.id \notin DOMAIN committed.client
             /\ StoredFor(committed.phone, last.id) = <<>>
    /\ (/\ last.op = "add_client" /\ last.exc = None
        /\ last.values.phone_numbers \notin {None, Some(<<>>)})
          => /\ last.id \in DOMAIN committed.client
             /\ Len(StoredFor(committed.phone, last.id))
                   = Len(The(last.values.phone_numbers))

\* C10 witness: add_client failed on its second phone number, after the client row
\* and the first number had been inserted in the open transaction.
C10_Witness ==
    /\ last.op = "add_client"
    /\ last.exc = Some("StringDataRightTruncation")
    /\ txn = "aborted"
    /\ last.id \in DOMAIN client
    /\ StoredFor(client_phone_number, last.id) # <<>>

----------------------------------------------------------------------------
\* Searching (specification SpecSearch): search_clients over the stores the
\* caller can have built, with every filter over the recognized fields.

\* clients and phone-number rows of a searched store
SearchIds == 2
SearchRows == 2

SearchFirstNames == {<<"A", "b">>, <<"b", "a">>}
SearchLastNames == {<<"a", "b">>, <<"B">>}

\* the stores: any clients with ids the sequence has handed out, and phone-number
\* rows that reference them
SearchClientTables ==
    UNION {[ids -> [first_name : SearchFirstNames, last_name : SearchLastNames,
                    email : Emails]] : ids \in SUBSET (1..SearchIds)}
SearchPhoneTables(clients) ==
    SeqUpTo([client_id : DOMAIN clients, phone_number : PhoneNumbers], SearchRows)

\* the patterns a filter may give for a field: a prefix and a suffix pattern in the
\* other case for the names, one character or anything for the email, a prefix
\* and a suffix for the phone number
Patterns(field) ==
    CASE field = "email"        -> {<<"_">>, <<"%">>}
      [] field = "phone_number" -> {<<"1", "%">>, <<"%", "1">>}
      [] OTHER                  -> {<<"a", "%">>, <<"%", "A">>}

\* ClientSearchValues: any subset of the fields, each with a pattern
Filters ==
    UNION {{f \in [fields -> UNION {Patterns(x) : x \in fields}] :
              \A x \in fields : f[x] \in Patterns(x)} : fields \in SUBSET SearchFields}

InitSearch ==
    /\ client \in SearchClientTables
    /\ client_phone_number \in SearchPhoneTables(client)
    /\ client_id_seq = SearchIds + 1
    /\ committed = [client |-> client, phone |-> client_phone_number]
    /\ txn = "ok"
    /\ last = NoCall
    /\ pc = "sequential"

\* one search on each store: a search writes nothing, so a later search runs on
\* the same store as the first
SearchClients ==
    /\ txn = "ok"
    /\ last = NoCall
    /\ \E values \in Filters :
          Finish(search_clients(Conn, values), Call("search_clients", 0, values, <<>>))

NextSearch == SearchClients

SpecSearch == InitSearch /\ [][NextSearch]_vars

\* a client satisfies a filter: every supplied parent field matches, and one of the
\* client's numbers matches the phone_number pattern when one is supplied
Satisfies(id, values) ==
    /\ \A field \in DOMAIN values \cap ParentFields :
          ILike(IF field = "email" THEN client[id].email ELSE Some(client[id][field]),
                values[field])
    /\ "phone_number" \in DOMAIN values
          => \E i \in 1..Len(client_phone_number) :
                /\ client_phone_number[i].client_id = id
                /\ ILike(Some(client_phone_number[i].phone_number), values.phone_number)

C6_NoMatchReturnsNone ==
    (/\ last.op = "search_clients"
     /\ DOMAIN last.values # {}
     /\ \A id \in DOMAIN client : ~Satisfies(id, last.values))
        => last.ret = None

----------------------------------------------------------------------------
\* Two callers of one ClientManager (specification SpecConc): caller u runs
\* update_client(c) and caller a runs add_phone_number(id, number), both through
\* self.conn, so their statements interleave one by one in the connection's
\* transaction.  last.u and last.a are the two calls; pc.u and pc.a the statement
\* each caller is about to execute, pc.i the next element of c.phone_numbers, and
\* pc.a_insert_at / pc.a_done_at where caller u stood when caller a inserted its
\* row and when it returned.

\* phone-number rows in the store when the two calls start
ConcRows == 1

ConcClientTables ==
    UNION {[ids -> [first_name : FirstNames, last_name : LastNames, email : Emails]] :
             ids \in {{1}, {1, 2}}}

InitConc ==
    /\ client \in ConcClientTables
    /\ client_phone_number \in
          SeqUpTo([client_id : DOMAIN client, phone_number : PhoneNumbers], ConcRows)
    /\ client_id_seq = 3
    /\ committed = [client |-> client, phone |-> client_phone_number]
    /\ txn = "ok"
    /\ \E c \in Clients, id \in 1..2, number \in PhoneNumbers :
          /\ c.id \in 1..2
          /\ last = [u |-> Call("update_client", c.id, c, <<>>),
                     a |-> Call("add_phone_number", id, None, number)]
    /\ pc = [u |-> "update", i |-> 1, a |-> "insert",
             a_insert_at |-> "", a_done_at |-> ""]

\* the connection after a statement of one of the callers
Statement(st) ==
    /\ client' = st.client
    /\ client_phone_number' = st.phone
    /\ committed' = st.committed
    /\ txn' = IF st.err = None THEN "ok" ELSE "aborted"
    /\ UNCHANGED client_id_seq

\* a statement on a connection whose transaction is aborted raises and does nothing
InFailedTransaction(who) ==
    /\ txn = "aborted"
    /\ last' = [last EXCEPT ![who].exc = Some("InFailedSqlTransaction")]
    /\ UNCHANGED <<client, client_phone_number, client_id_seq, committed, txn>>

\* update_client: UPDATE client SET ... WHERE client_id = %s RETURNING client_id
U_Update ==
    /\ pc.u = "update"
    /\ \/ /\ InFailedTransaction("u")
          /\ pc' = [pc EXCEPT !.u = "done"]
       \/ /\ txn = "ok"
          /\ LET c == last.u.values
             IN  IF c.id \in DOMAIN client
                 THEN /\ client' = [client EXCEPT ![c.id] =
                                       [first_name |-> c.first_name,
                                        last_name  |-> c.last_name,
                                        email      |-> c.email]]
                      /\ pc' = [pc EXCEPT !.u = "delete"]
                      /\ UNCHANGED last
                 ELSE /\ last' = [last EXCEPT !.u.exc = Some("ClientNotExistsError")]
                      /\ pc' = [pc EXCEPT !.u = "done"]
                      /\ UNCHANGED client
          /\ UNCHANGED <<client_phone_number, client_id_seq, committed, txn>>

\* _set_phone_numbers: _delete_phone_numbers(client_id)
U_Delete ==
    /\ pc.u = "delete"
    /\ \/ /\ InFailedTransaction("u")
          /\ pc' = [pc EXCEPT !.u = "done"]
       \/ /\ txn = "ok"
          /\ Statement(_delete_phone_numbers(Conn, last.u.id))
          /\ pc' = [pc EXCEPT !.u = IF last.u.values.phone_numbers # <<>>
                                    THEN "insert" ELSE "load"]
          /\ UNCHANGED last

\* _add_phone_numbers: one INSERT of the for loop
U_Insert ==
    /\ pc.u = "insert"
    /\ \/ /\ InFailedTransaction("u")
          /\ pc' = [pc EXCEPT !.u = "done"]
       \/ /\ txn = "ok"
          /\ LET st == InsertPhoneNumber(Conn, last.u.id, last.u.values.phone_numbers[pc.i])
             IN  /\ Statement(st)
                 /\ IF st.err # None
                    THEN /\ last' = [last EXCEPT !.u.exc = st.err]
                         /\ pc' = [pc EXCEPT !.u = "done"]
                    ELSE /\ pc' = [pc EXCEPT !.i = @ + 1,
                                             !.u = IF pc.i = Len(last.u.values.phone_numbers)
                                                   THEN "commit" ELSE "insert"]
                         /\ UNCHANGED last

\* _add_phone_numbers: self.conn.commit() after the loop
U_Commit ==
    /\ pc.u = "commit"
    /\ Statement(IF txn = "ok" THEN commit(Conn) ELSE rollback(Conn))
    /\ pc' = [pc EXCEPT !.u = "load"]
    /\ UNCHANGED last

\* update_client: return self.load_client(client.id)
U_Load ==
    /\ pc.u = "load"
    /\ \/ InFailedTransaction("u")
       \/ /\ txn = "ok"
          /\ last' = [last EXCEPT !.u.ret = load_client(Conn, last.u.id)]
          /\ UNCHANGED <<client, client_phone_number, client_id_seq, committed, txn>>
    /\ pc' = [pc EXCEPT !.u = "done"]

\* add_phone_number: INSERT INTO client_phone_number VALUES(%s, %s)
A_Insert ==
    /\ pc.a = "insert"
    /\ \/ /\ InFailedTransaction("a")
          /\ pc' = [pc EXCEPT !.a = "done", !.a_insert_at = pc.u, !.a_done_at = pc.u]
       \/ /\ txn = "ok"
          /\ LET st == InsertPhoneNumber(Conn, last.a.id, last.a.number)
             IN  /\ Statement(st)
                 /\ IF st.err # None
                    THEN /\ last' = [last EXCEPT !.a.exc = st.err]
                         /\ pc' = [pc EXCEPT !.a = "done", !.a_insert_at = pc.u,
                                             !.a_done_at = pc.u]
                    ELSE /\ pc' = [pc EXCEPT !.a = "commit", !.a_insert_at = pc.u]
                         /\ UNCHANGED last

\* add_phone_number: self.conn.commit()
A_Commit ==
    /\ pc.a = "commit"
    /\ Statement(IF txn = "ok" THEN commit(Conn) ELSE rollback(Conn))
    /\ pc' = [pc EXCEPT !.a = "load"]
    /\ UNCHANGED last

\* add_phone_number: return self.load_client(client_id)
A_Load ==
    /\ pc.a = "load"
    /\ \/ InFailedTransaction("a")
       \/ /\ txn = "ok"
          /\ last' = [last EXCEPT !.a.ret = load_client(Conn, last.a.id)]
          /\ UNCHANGED <<client, client_phone_number, client_id_seq, committed, txn>>
    /\ pc' = [pc EXCEPT !.a = "done", !.a_done_at = pc.u]

NextConc ==
    \/ U_Update
    \/ U_Delete
    \/ U_Insert
    \/ U_Commit
    \/ U_Load
    \/ A_Insert
    \/ A_Commit
    \/ A_Load

SpecConc == InitConc /\ [][NextConc]_vars

\* both calls have returned normally, and were about the same client
BothReturned ==
    /\ pc.u = "done" /\ pc.a = "done"
    /\ last.u.exc = None /\ last.a.exc = None
    /\ last.u.id = last.a.id

\* C9: once both calls on the same client have returned, a number that
\* add_phone_number inserted before update_client's delete-all is stored only as
\* often as the update's list holds it (not at all when the list does not hold it),
\* while one inserted after the delete-all is stored once more than that.
C9_ConcurrentAddIsLost ==
    BothReturned
        => LET stored == StoredFor(client_phone_number, last.a.id)
               kept == IF pc.a_insert_at \in {"update", "delete"} THEN 0 ELSE 1
           IN  Occurrences([i \in 1..Len(stored) |-> stored[i].phone_number], last.a.number)
                  = Occurrences(last.u.values.phone_numbers, last.a.number) + kept

\* C9 witness: add_phone_number inserted its number and returned an entity holding
\* it while update_client stood between its UPDATE and its delete-all; the update's
\* list does not hold the number, and after both calls the number is not stored,
\* neither in the connection's view nor in what it has committed.
C9_Witness ==
    /\ BothReturned
    /\ pc.a_insert_at = "delete"
    /\ pc.a_done_at = "delete"
    /\ last.a.number \in Range(The(last.a.ret).phone_numbers)
    /\ last.a.number \notin Range(last.u.values.phone_numbers)
    /\ [client_id |-> last.a.id, phone_number |-> last.a.number]
          \notin Range(client_phone_number) \cup Range(committed.phone)

====
